---- MODULE Spec2Model ----
(***************************************************************************)
(* A model of subspacer: the batch builder (program/src/builder.rs), the   *)
(* wire reader (program/src/lib.rs), the guest verifier                    *)
(* (program/src/guest.rs) and the registry's staging and commit workflow   *)
(* (registry/src/main.rs).                                                 *)
(*                                                                         *)
(* Byte strings are sequences of naturals below 256, with the widths of    *)
(* the code: hashes and owners are 32 bytes, signatures 64, the header 33. *)
(***************************************************************************)
EXTENDS Integers, Sequences, FiniteSets, TLC

VARIABLES
    builder,    \* the TransactionBuilder under use: [version, transactions]
    op,         \* the last operation on the builder, its arguments and result
    pc,         \* "open": the builder is alive; "built": build consumed it
    wire,       \* the bytes build returned
    data,       \* BodyIterator.data: the bytes the reader has not consumed
    yielded,    \* the entries BodyIterator::next returned so far, in order
    ended,      \* BodyIterator::next has returned None at least once
    subtree,    \* guest: the decoded SubTree, [leaves, absent]
    initial_root, \* guest: subtree.root() before the transitions
    leaf,       \* guest: the position of subtree.iter_mut()
    result,     \* guest: "none" while running, then Ok(commitment) or Err(error)
    transition, \* guest: the last call of handle_transition and what it returned
    drained,    \* guest: the number of inputs run has taken from the payload
    commitments, \* guest: the commitments run has pushed
    journal,    \* guest: what main committed to the journal
    staging,    \* registry: the staging file uncommitted.json
    stores,     \* registry: the store file <space>.sdb of each space
    tx_set,     \* registry: the batches prepare_zk_input returned, by space
    payload,    \* registry: the guest inputs prepare_zk_input returned
    proof,      \* registry: what prove returned to commit
    args        \* registry: the CommitArgs of the commit that is running

builderVars == <<builder, op>>
readerVars  == <<wire, data, yielded, ended>>
guestVars   == <<subtree, initial_root, leaf, result, transition,
                 drained, commitments, journal>>
registryVars == <<staging, stores, tx_set, payload, proof, args>>
vars == <<builder, op, pc, wire, data, yielded, ended,
          subtree, initial_root, leaf, result, transition,
          drained, commitments, journal,
          staging, stores, tx_set, payload, proof, args>>

----------------------------------------------------------------------------
(* Bounds of the model *)

\* most transactions a builder holds
MaxTxs == 2
\* most transactions of the other builder of a merge
MaxOther == 2
\* most entries of a batch handed to the guest
MaxEntries == 2
\* most transactions of a builder in a JSON file written by hand
MaxJsonTxs == 2
\* most inputs of a payload handed to run
MaxInputs == 2

----------------------------------------------------------------------------
(* Bytes *)

HEADER_SIZE == 33
PUBLIC_KEY_SIZE == 32
SEC1_COMPRESSED_TAG == 2
WITNESS_TYPE_SIGNATURE == 0

Zeros(n) == [i \in 1..n |-> 0]

\* <[u8]>::cmp: lexicographic order of two byte strings
RECURSIVE CmpFrom(_, _, _)
CmpFrom(a, b, i) ==
    IF i > Len(a) /\ i > Len(b) THEN "Equal"
    ELSE IF i > Len(a) THEN "Less"
    ELSE IF i > Len(b) THEN "Greater"
    ELSE IF a[i] < b[i] THEN "Less"
    ELSE IF a[i] > b[i] THEN "Greater"
    ELSE CmpFrom(a, b, i + 1)

CmpBytes(a, b) == CmpFrom(a, b, 1)

\* (len as u16).to_le_bytes()
U16LeBytes(len) == << (len % 65536) % 256, (len % 65536) \div 256 >>

\* u16::from_le_bytes
U16FromLe(b) == b[1] + 256 * b[2]

----------------------------------------------------------------------------
(* Names, spaces and SHA-256 *)

Names  == {"a", "b", "c"}
Spaces == {"s", "t"}

\* str::as_bytes of the names and spaces of the model
AsBytes(str) ==
    CASE str = "a" -> <<97>>
      [] str = "b" -> <<98>>
      [] str = "c" -> <<99>>
      [] str = "s" -> <<115>>
      [] str = "t" -> <<116>>

----------------------------------------------------------------------------
(* Keys and signatures (k256) *)

\* private keys of the model: the scalars 1 and 2
SigningKeys == {1, 2}

\* OwnerPublicKey::owner_public_key: the x coordinate of sk * G, the SEC1
\* compressed point with its tag byte stripped
owner_public_key(sk) ==
    CASE sk = 1 ->
           <<121, 190, 102, 126, 249, 220, 187, 172, 85, 160, 98, 149, 206, 135, 11, 7,
             2, 155, 252, 219, 45, 206, 40, 217, 89, 242, 129, 91, 22, 248, 23, 152>>
      [] sk = 2 ->
           <<198, 4, 127, 148, 65, 237, 125, 109, 48, 69, 64, 110, 149, 192, 124, 216,
             92, 119, 142, 75, 140, 239, 60, 167, 171, 172, 9, 185, 92, 112, 158, 229>>

\* hash: SHA-256, by its values on the byte strings of the model
hash(slice) ==
    CASE slice = <<97>> ->
           <<202, 151, 129, 18, 202, 27, 189, 202, 250, 194, 49, 179, 154, 35, 220, 77,
             167, 134, 239, 248, 20, 124, 78, 114, 185, 128, 119, 133, 175, 238, 72, 187>>
      [] slice = <<98>> ->
           <<62, 35, 232, 22, 0, 57, 89, 74, 51, 137, 79, 101, 100, 225, 177, 52,
             139, 189, 122, 0, 136, 212, 44, 74, 203, 115, 238, 174, 213, 156, 0, 157>>
      [] slice = <<99>> ->
           <<46, 125, 44, 3, 169, 80, 122, 226, 101, 236, 245, 181, 53, 104, 133, 165,
             51, 147, 162, 2, 157, 36, 19, 148, 153, 114, 101, 161, 162, 90, 239, 198>>
      [] slice = <<115>> ->
           <<4, 58, 113, 135, 116, 197, 114, 189, 138, 37, 173, 190, 177, 191, 205, 92,
             2, 86, 174, 17, 206, 207, 159, 156, 63, 146, 93, 14, 82, 190, 175, 137>>
      [] slice = <<116>> ->
           <<227, 185, 138, 77, 163, 26, 18, 125, 75, 222, 110, 67, 3, 63, 102, 186,
             39, 76, 171, 14, 183, 235, 28, 112, 236, 65, 64, 43, 246, 39, 61, 216>>
      [] slice = owner_public_key(1) ->
           <<19, 47, 57, 169, 140, 49, 186, 173, 219, 166, 82, 95, 93, 67, 242, 149,
             68, 114, 9, 127, 161, 82, 101, 244, 81, 48, 191, 219, 112, 229, 29, 239>>
      [] slice = owner_public_key(2) ->
           <<1, 53, 218, 47, 138, 207, 123, 158, 48, 144, 147, 148, 50, 228, 118, 132,
             235, 136, 142, 163, 140, 33, 115, 5, 77, 78, 237, 255, 223, 21, 44, 165>>
      [] slice = Zeros(32) ->
           <<102, 104, 122, 173, 248, 98, 189, 119, 108, 143, 193, 139, 142, 159, 142, 32,
             8, 151, 20, 133, 110, 226, 51, 179, 144, 42, 89, 29, 13, 95, 41, 37>>
      [] slice = <<5>> ->
           <<231, 123, 154, 154, 233, 227, 11, 13, 189, 182, 245, 16, 162, 100, 239, 157,
             231, 129, 80, 29, 123, 107, 146, 174, 137, 235, 5, 156, 90, 183, 67, 219>>

\* the prehash of a message inside sign and verify: a 16-bit weighted
\* checksum of its bytes standing for the SHA-256 digest of the message
RECURSIVE WeightedSum(_, _, _)
WeightedSum(msg, lo, hi) ==
    IF lo > hi THEN 0
    ELSE IF lo = hi THEN ((131 * lo + 17) * (msg[lo] + 1)) % 65521
    ELSE LET mid == (lo + hi) \div 2
         IN  (WeightedSum(msg, lo, mid) + WeightedSum(msg, mid + 1, hi)) % 65521

Checksum(msg) == WeightedSum(msg, 1, Len(msg))

\* SigningKey::sign: the 64 bytes r || s; deterministic in the key and the
\* message, and distinct for distinct keys or messages of the model
Sign(sk, msg) ==
    LET d == Checksum(msg)
    IN  <<sk>> \o Zeros(31) \o <<1 + (Len(msg) % 255), d \div 256, d % 256>> \o Zeros(29)

----------------------------------------------------------------------------
(* builder.rs: Transaction and TransactionBuilder *)

\* Transaction::new
TransactionNew(name, owner) ==
    [name |-> name, owner |-> owner, witness |-> <<>>, key |-> hash(AsBytes(name))]

\* a Transaction as serde deserializes it: key is skipped and takes its
\* default, witness defaults to empty
TransactionFromJson(json) ==
    [name |-> json.name, owner |-> json.owner, witness |-> json.witness,
     key |-> Zeros(32)]

\* TransactionBuilder::new
TransactionBuilderNew == [version |-> 0, transactions |-> <<>>]

\* the Option<(&str, SigningKey)> argument of add
NoKey == [some |-> FALSE, space |-> "s", sk |-> 1]
SomeKey(space, sk) == [some |-> TRUE, space |-> space, sk |-> sk]

\* TransactionBuilder::make_header
make_header(self, space) == <<self.version>> \o hash(AsBytes(space))

\* the message add signs: header || SHA-256(name) || owner
SignedMessage(self, space, entry) ==
    make_header(self, space) \o hash(AsBytes(entry.name)) \o entry.owner

\* self.transactions.iter().any(|e| e.name == name)
HasName(self, name) ==
    \E i \in DOMAIN self.transactions : self.transactions[i].name = name

\* add with the signature appended to the witness, as the code does
SignEntry(self, entry, key) ==
    [entry EXCEPT !.witness =
        @ \o <<WITNESS_TYPE_SIGNATURE>>
          \o Sign(key.sk, SignedMessage(self, key.space, entry))]

\* add without its check for a duplicate name
addUnchecked(self, entry, key) ==
    [ok |-> TRUE,
     builder |-> [self EXCEPT !.transactions =
                     Append(@, IF key.some THEN SignEntry(self, entry, key) ELSE entry)]]

\* add checking for a duplicate name only when no signer is given
addCheckedUnsigned(self, entry, key) ==
    IF ~key.some /\ HasName(self, entry.name)
    THEN [ok |-> FALSE, builder |-> self]
    ELSE addUnchecked(self, entry, key)

\* TransactionBuilder::add: [ok, builder], the result and the builder after
add(self, entry, key) ==
    IF HasName(self, entry.name)
    THEN [ok |-> FALSE, builder |-> self]
    ELSE LET signed == IF key.some THEN SignEntry(self, entry, key) ELSE entry
         IN  [ok |-> TRUE,
              builder |-> [self EXCEPT !.transactions = Append(@, signed)]]

\* the loop of merge: add(entry, None)? for each entry of other
RECURSIVE MergeLoop(_, _)
MergeLoop(self, entries) ==
    IF entries = <<>> THEN [ok |-> TRUE, builder |-> self]
    ELSE LET r == add(self, Head(entries), NoKey)
         IN  IF r.ok THEN MergeLoop(r.builder, Tail(entries))
             ELSE [ok |-> FALSE, builder |-> r.builder]

\* TransactionBuilder::merge
merge(self, other) ==
    IF self.version # other.version
    THEN [ok |-> FALSE, builder |-> self]
    ELSE MergeLoop(self, other.transactions)

\* the comparator without the grouping by witness
SortCompareKeyOnly(a, b) == CmpBytes(a.key, b.key)

\* the comparator with the keys compared the other way round
SortCompareDescending(a, b) ==
    IF a.witness = <<>> /\ b.witness # <<>> THEN "Greater"
    ELSE IF a.witness # <<>> /\ b.witness = <<>> THEN "Less"
    ELSE CmpBytes(b.key, a.key)

\* the comparator of sort
SortCompare(a, b) ==
    IF a.witness = <<>> /\ b.witness # <<>> THEN "Greater"
    ELSE IF a.witness # <<>> /\ b.witness = <<>> THEN "Less"
    ELSE CmpBytes(a.key, b.key)

\* slice::sort_by, a stable sort: insertion from the back
RECURSIVE InsertSorted(_, _)
InsertSorted(s, x) ==
    IF s = <<>> THEN <<x>>
    ELSE IF SortCompare(s[Len(s)], x) = "Greater"
         THEN Append(InsertSorted(SubSeq(s, 1, Len(s) - 1), x), s[Len(s)])
         ELSE Append(s, x)

RECURSIVE SortBy(_)
SortBy(s) ==
    IF s = <<>> THEN <<>>
    ELSE InsertSorted(SortBy(SubSeq(s, 1, Len(s) - 1)), s[Len(s)])

\* sort without the refresh of the cached keys
sortStaleKeys(transactions) == SortBy(transactions)

\* TransactionBuilder::sort, on the transaction list
sort(transactions) ==
    SortBy([i \in DOMAIN transactions |->
              [transactions[i] EXCEPT !.key = hash(AsBytes(transactions[i].name))]])

\* TransactionBuilder::write_tx: the bytes appended for one transaction
write_tx(tx) ==
    LET len == 32 + 32 + Len(tx.witness)
    IN  U16LeBytes(len) \o hash(AsBytes(tx.name)) \o tx.owner \o tx.witness

RECURSIVE WriteAll(_)
WriteAll(txs) ==
    IF txs = <<>> THEN <<>> ELSE write_tx(Head(txs)) \o WriteAll(Tail(txs))

\* build with the number of transactions written after the header
buildCounted(self, space) ==
    <<self.version>> \o hash(AsBytes(space)) \o <<Len(self.transactions) % 256>>
        \o WriteAll(sort(self.transactions))

\* TransactionBuilder::build
build(self, space) ==
    <<self.version>> \o hash(AsBytes(space)) \o WriteAll(sort(self.transactions))

----------------------------------------------------------------------------
(* lib.rs: TransactionReader and BodyIterator *)

\* TransactionReader::iter: the data of the new BodyIterator
ReaderIter(bytes) == SubSeq(bytes, HEADER_SIZE + 1, Len(bytes))

\* TransactionReader::space_hash
space_hash(bytes) == SubSeq(bytes, 2, 33)

NoEntry == [subspace_hash |-> <<>>, owner |-> <<>>, witness |-> <<>>]

\* BodyIterator::next without the check of len against 64
BodyIteratorNextUnchecked(d) ==
    IF 2 > Len(d) THEN [some |-> FALSE, panic |-> FALSE, entry |-> NoEntry, data |-> d]
    ELSE
      LET len == U16FromLe(SubSeq(d, 1, 2))
          d1  == SubSeq(d, 3, Len(d))
      IN  IF len > Len(d1)
          THEN [some |-> FALSE, panic |-> FALSE, entry |-> NoEntry, data |-> d1]
          ELSE
            LET d2 == SubSeq(d1, 1, len)
            IN  IF Len(d2) < 64
                THEN [some |-> FALSE, panic |-> TRUE, entry |-> NoEntry, data |-> d2]
                ELSE [some  |-> TRUE,
                      panic |-> FALSE,
                      entry |-> [subspace_hash |-> SubSeq(d2, 1, 32),
                                 owner         |-> SubSeq(d2, 33, 64),
                                 witness       |-> SubSeq(d2, 65, Len(d2))],
                      data  |-> SubSeq(d2, len + 1, Len(d2))]

\* BodyIterator::next: [some, panic, entry, data], the item, whether a slice
\* went out of bounds or the assertion failed, and the data after
BodyIteratorNext(d) ==
    IF 2 > Len(d) THEN [some |-> FALSE, panic |-> FALSE, entry |-> NoEntry, data |-> d]
    ELSE
      LET len == U16FromLe(SubSeq(d, 1, 2))
          d1  == SubSeq(d, 3, Len(d))
      IN  IF len > Len(d1) \/ len < 64
          THEN [some |-> FALSE, panic |-> FALSE, entry |-> NoEntry, data |-> d1]
          ELSE
            LET d2 == SubSeq(d1, 1, len)
            IN  IF Len(d2) < 64 \/ Len(d2) - 64 # len - 64 \/ len > Len(d2)
                THEN [some |-> FALSE, panic |-> TRUE, entry |-> NoEntry, data |-> d2]
                ELSE [some  |-> TRUE,
                      panic |-> FALSE,
                      entry |-> [subspace_hash |-> SubSeq(d2, 1, 32),
                                 owner         |-> SubSeq(d2, 33, 64),
                                 witness       |-> SubSeq(d2, 65, Len(d2))],
                      data  |-> SubSeq(d2, len + 1, Len(d2))]

\* a witness of a type other than WITNESS_TYPE_SIGNATURE
PriorWitness == <<1, 7>>

SeqsUpTo(S, n) == UNION {[1..k -> S] : k \in 0..n}
----------------------------------------------------------------------------
(* spacedb: the SubTree of a proof, as the guest uses it.                  *)
(* leaves: the included leaves in ascending key order, each a value or,    *)
(* once inserted by the guest, a hash; absent: the keys whose absence the  *)
(* proof establishes. Any other key lies under a hashed node.              *)

EmptySubTree == [leaves |-> <<>>, absent |-> {}]

\* SubTree::root: the root commits to the content of the leaves
SubTreeRoot(st) == {st.leaves[i] : i \in DOMAIN st.leaves}

\* SubTree::insert(key, ValueOrHash::Hash(h)): [err, subtree]
SubTreeInsert(st, key, h) ==
    IF \E i \in DOMAIN st.leaves : st.leaves[i].key = key
    THEN [err |-> "KeyExists", subtree |-> st]
    ELSE IF key \notin st.absent
    THEN [err |-> "IncompleteProof", subtree |-> st]
    ELSE LET before == SelectSeq(st.leaves, LAMBDA l : CmpBytes(l.key, key) = "Less")
             after  == SelectSeq(st.leaves, LAMBDA l : CmpBytes(l.key, key) = "Greater")
         IN  [err |-> "Ok",
              subtree |-> [leaves |-> before
                                       \o <<[key |-> key, value |-> h, hashed |-> TRUE]>>
                                       \o after,
                           absent |-> st.absent \ {key}]]

\* what a leaf contributes to the root: its key and the hash of its value,
\* which is the hash a ValueOrHash::Hash leaf carries and the SHA-256 of the
\* value a ValueOrHash::Value leaf carries
LeafHash(l) == [key |-> l.key, value_hash |-> IF l.hashed THEN l.value ELSE hash(l.value)]

\* the root hash of a tree with the leaves ls, as far as it depends on them
RootHash(ls) == {LeafHash(l) : l \in ls}

\* WriteTransaction::insert(key, value) on the leaves of a store: the value
\* of the key is set, be the key new or not
StoreInsert(ls, key, value) ==
    {l \in ls : l.key # key} \cup {[key |-> key, value |-> value, hashed |-> FALSE]}

----------------------------------------------------------------------------
(* k256, as the guest uses it *)

\* VerifyingKey::from_sec1_bytes: a compressed point parses when its x
\* coordinate lies on the curve
VerifyingKeyFromSec1(bytes) ==
    /\ Len(bytes) = PUBLIC_KEY_SIZE + 1
    /\ bytes[1] = SEC1_COMPRESSED_TAG
    /\ \E sk \in SigningKeys : SubSeq(bytes, 2, Len(bytes)) = owner_public_key(sk)

\* Signature::from_slice: 64 bytes r || s, neither of them zero
SignatureFromSlice(bytes) ==
    /\ Len(bytes) = 64
    /\ SubSeq(bytes, 1, 32) # Zeros(32)
    /\ SubSeq(bytes, 33, 64) # Zeros(32)

\* VerifyingKey::verify: the signature is the one the private key of the
\* point makes over the message
Verify(pk, msg, sig) ==
    \E sk \in SigningKeys :
        /\ pk = <<SEC1_COMPRESSED_TAG>> \o owner_public_key(sk)
        /\ sig = Sign(sk, msg)

----------------------------------------------------------------------------
(* guest.rs *)

\* handle_transition with the result of verify ignored
handle_transitionUnverified(key, value, tx) ==
    IF key # tx.subspace_hash THEN [err |-> "UnalignedSubTree", value |-> value]
    ELSE IF Len(value) # PUBLIC_KEY_SIZE THEN [err |-> "ExpectedPublicKey", value |-> value]
    ELSE IF ~VerifyingKeyFromSec1(<<SEC1_COMPRESSED_TAG>> \o value)
    THEN [err |-> "ExpectedPublicKey", value |-> value]
    ELSE IF tx.witness = <<>> THEN [err |-> "WitnessRequired", value |-> value]
    ELSE IF tx.witness[1] # WITNESS_TYPE_SIGNATURE
    THEN [err |-> "UnsupportedWitness", value |-> value]
    ELSE IF ~SignatureFromSlice(Tail(tx.witness))
    THEN [err |-> "InvalidSignature", value |-> value]
    ELSE [err |-> "Ok", value |-> tx.owner]

\* handle_transition with the new owner written before the signature is verified
handle_transitionEagerWrite(key, value, tx) ==
    IF key # tx.subspace_hash THEN [err |-> "UnalignedSubTree", value |-> value]
    ELSE IF Len(value) # PUBLIC_KEY_SIZE THEN [err |-> "ExpectedPublicKey", value |-> value]
    ELSE IF ~VerifyingKeyFromSec1(<<SEC1_COMPRESSED_TAG>> \o value)
    THEN [err |-> "ExpectedPublicKey", value |-> value]
    ELSE IF tx.witness = <<>> THEN [err |-> "WitnessRequired", value |-> value]
    ELSE IF tx.witness[1] # WITNESS_TYPE_SIGNATURE
    THEN [err |-> "UnsupportedWitness", value |-> value]
    ELSE IF ~SignatureFromSlice(Tail(tx.witness))
    THEN [err |-> "InvalidSignature", value |-> tx.owner]
    ELSE IF ~Verify(<<SEC1_COMPRESSED_TAG>> \o value, key \o tx.owner, Tail(tx.witness))
    THEN [err |-> "InvalidSignature", value |-> tx.owner]
    ELSE [err |-> "Ok", value |-> tx.owner]

\* handle_transition comparing the keys after the checks of the leaf value
\* and of the witness
handle_transitionKeyCheckLate(key, value, tx) ==
    IF Len(value) # PUBLIC_KEY_SIZE THEN [err |-> "ExpectedPublicKey", value |-> value]
    ELSE IF ~VerifyingKeyFromSec1(<<SEC1_COMPRESSED_TAG>> \o value)
    THEN [err |-> "ExpectedPublicKey", value |-> value]
    ELSE IF tx.witness = <<>> THEN [err |-> "WitnessRequired", value |-> value]
    ELSE IF tx.witness[1] # WITNESS_TYPE_SIGNATURE
    THEN [err |-> "UnsupportedWitness", value |-> value]
    ELSE IF key # tx.subspace_hash THEN [err |-> "UnalignedSubTree", value |-> value]
    ELSE IF ~SignatureFromSlice(Tail(tx.witness))
    THEN [err |-> "InvalidSignature", value |-> value]
    ELSE IF ~Verify(<<SEC1_COMPRESSED_TAG>> \o value, key \o tx.owner, Tail(tx.witness))
    THEN [err |-> "InvalidSignature", value |-> value]
    ELSE [err |-> "Ok", value |-> tx.owner]

\* handle_transition: [err, value], the result and the leaf value after.
\* The message verified is the buffer key || tx.owner.
handle_transition(key, value, tx) ==
    IF key # tx.subspace_hash THEN [err |-> "UnalignedSubTree", value |-> value]
    ELSE IF Len(value) # PUBLIC_KEY_SIZE THEN [err |-> "ExpectedPublicKey", value |-> value]
    ELSE IF ~VerifyingKeyFromSec1(<<SEC1_COMPRESSED_TAG>> \o value)
    THEN [err |-> "ExpectedPublicKey", value |-> value]
    ELSE IF tx.witness = <<>> THEN [err |-> "WitnessRequired", value |-> value]
    ELSE IF tx.witness[1] # WITNESS_TYPE_SIGNATURE
    THEN [err |-> "UnsupportedWitness", value |-> value]
    ELSE IF ~SignatureFromSlice(Tail(tx.witness))
    THEN [err |-> "InvalidSignature", value |-> value]
    ELSE IF ~Verify(<<SEC1_COMPRESSED_TAG>> \o value, key \o tx.owner, Tail(tx.witness))
    THEN [err |-> "InvalidSignature", value |-> value]
    ELSE [err |-> "Ok", value |-> tx.owner]

\* the error of handle_tx_set for an error of SubTree::insert
MapVerifyError(e) == IF e = "KeyExists" THEN "KeyExists" ELSE "IncompleteSubTree"

NoCommitment == [space |-> <<>>, initial_root |-> {}, final_root |-> {}]
NoResult == [kind |-> "none", err |-> "none", commitment |-> NoCommitment]
Err(e) == [kind |-> "Err", err |-> e, commitment |-> NoCommitment]
Ok(c) == [kind |-> "Ok", err |-> "none", commitment |-> c]

\* the journal before env::commit
NoJournal == [written |-> FALSE, out |-> <<>>]

\* no call of handle_transition yet
NoTransition == [called |-> FALSE, key |-> <<>>, value |-> <<>>, tx |-> NoEntry,
                 err |-> "none", after |-> <<>>]

\* the positions of the leaves subtree.iter_mut() yields: those holding a value
ValueLeaves(st) == SelectSeq([i \in DOMAIN st.leaves |-> i], LAMBDA i : ~st.leaves[i].hashed)

\* handle_tx_set, lines 45 to 55: the subtree is decoded, its root taken and
\* the iterator over the batch made
GuestStart ==
    /\ pc = "g_start"
    /\ pc' = "g_zip"
    /\ initial_root' = SubTreeRoot(subtree)
    /\ data' = ReaderIter(wire)
    /\ leaf' = 1
    /\ UNCHANGED <<builderVars, wire, yielded, ended, subtree, result, transition,
                   drained, commitments, journal, registryVars>>

\* a zip that takes the next entry before it looks for the next leaf
GuestZipEntryFirst ==
    /\ pc = "g_zip"
    /\ LET r == BodyIteratorNext(data)
       IN  IF leaf > Len(ValueLeaves(subtree)) \/ ~r.some
           THEN /\ pc' = "g_reg"
                /\ data' = r.data
                /\ ended' = (ended \/ ~r.some)
                /\ yielded' = IF r.some THEN Append(yielded, r.entry) ELSE yielded
                /\ UNCHANGED <<subtree, leaf, result, transition>>
           ELSE LET i == ValueLeaves(subtree)[leaf]
                    t == handle_transition(subtree.leaves[i].key, subtree.leaves[i].value,
                                           r.entry)
                IN  /\ data' = r.data
                    /\ ended' = ended
                    /\ yielded' = Append(yielded, r.entry)
                    /\ leaf' = leaf + 1
                    /\ transition' = [called |-> TRUE, key |-> subtree.leaves[i].key,
                                      value |-> subtree.leaves[i].value, tx |-> r.entry,
                                      err |-> t.err, after |-> t.value]
                    /\ IF t.err # "Ok"
                       THEN pc' = "g_err" /\ result' = Err(t.err) /\ UNCHANGED subtree
                       ELSE /\ pc' = "g_zip"
                            /\ subtree' = [subtree EXCEPT !.leaves[i].value = t.value]
                            /\ UNCHANGED result
    /\ UNCHANGED <<builderVars, wire, initial_root, drained, commitments, journal,
                   registryVars>>

\* one turn of the loop over subtree.iter_mut().zip(transactions.by_ref()):
\* zip takes the next leaf first and, only if there is one, the next entry
GuestZip ==
    /\ pc = "g_zip"
    /\ IF leaf > Len(ValueLeaves(subtree))
       THEN /\ pc' = "g_reg"
            /\ UNCHANGED <<data, yielded, ended, subtree, leaf, result, transition>>
       ELSE LET r == BodyIteratorNext(data)
                i == ValueLeaves(subtree)[leaf]
                t == handle_transition(subtree.leaves[i].key, subtree.leaves[i].value,
                                       r.entry)
            IN  /\ data' = r.data
                /\ ended' = (ended \/ ~r.some)
                /\ yielded' = IF r.some THEN Append(yielded, r.entry) ELSE yielded
                /\ leaf' = leaf + 1
                /\ transition' = IF ~r.some THEN transition
                                  ELSE [called |-> TRUE, key |-> subtree.leaves[i].key,
                                        value |-> subtree.leaves[i].value, tx |-> r.entry,
                                        err |-> t.err, after |-> t.value]
                /\ IF ~r.some
                   THEN pc' = "g_reg" /\ UNCHANGED <<subtree, result>>
                   ELSE IF t.err # "Ok"
                   THEN pc' = "g_err" /\ result' = Err(t.err) /\ UNCHANGED subtree
                   ELSE /\ pc' = "g_zip"
                        /\ subtree' = [subtree EXCEPT !.leaves[i].value = t.value]
                        /\ UNCHANGED result
    /\ UNCHANGED <<builderVars, wire, initial_root, drained, commitments, journal,
                   registryVars>>

\* one turn of the loop over the remaining transactions, the registrations;
\* at its end the final root is taken and the commitment returned
GuestRegistration ==
    /\ pc = "g_reg"
    /\ LET r == BodyIteratorNext(data)
           ins == SubTreeInsert(subtree, r.entry.subspace_hash, r.entry.owner)
       IN  /\ data' = r.data
           /\ ended' = (ended \/ ~r.some)
           /\ yielded' = IF r.some THEN Append(yielded, r.entry) ELSE yielded
           /\ IF ~r.some
              THEN /\ pc' = "g_done"
                   /\ result' = Ok([space |-> space_hash(wire),
                                    initial_root |-> initial_root,
                                    final_root |-> SubTreeRoot(subtree)])
                   /\ UNCHANGED subtree
              ELSE IF ins.err # "Ok"
              THEN pc' = "g_err" /\ result' = Err(MapVerifyError(ins.err)) /\ UNCHANGED subtree
              ELSE pc' = "g_reg" /\ subtree' = ins.subtree /\ UNCHANGED result
    /\ UNCHANGED <<builderVars, wire, initial_root, leaf, transition,
                   drained, commitments, journal, registryVars>>

----------------------------------------------------------------------------
(* guest.rs: handle_tx_set as a function, run, and main of the guest *)

\* the loop over subtree.iter_mut().zip(transactions.by_ref()) from the leaf
\* at position i on: [err, subtree, data]
RECURSIVE ZipLoop(_, _, _)
ZipLoop(st, i, d) ==
    IF i > Len(ValueLeaves(st)) THEN [err |-> "Ok", subtree |-> st, data |-> d]
    ELSE LET r == BodyIteratorNext(d)
             j == ValueLeaves(st)[i]
             t == handle_transition(st.leaves[j].key, st.leaves[j].value, r.entry)
         IN  IF ~r.some THEN [err |-> "Ok", subtree |-> st, data |-> r.data]
             ELSE IF t.err # "Ok" THEN [err |-> t.err, subtree |-> st, data |-> r.data]
             ELSE ZipLoop([st EXCEPT !.leaves[j].value = t.value], i + 1, r.data)

\* the loop over the remaining transactions: [err, subtree]
RECURSIVE RegistrationLoop(_, _)
RegistrationLoop(st, d) ==
    LET r == BodyIteratorNext(d)
        ins == SubTreeInsert(st, r.entry.subspace_hash, r.entry.owner)
    IN  IF ~r.some THEN [err |-> "Ok", subtree |-> st]
        ELSE IF ins.err # "Ok" THEN [err |-> MapVerifyError(ins.err), subtree |-> st]
        ELSE RegistrationLoop(ins.subtree, r.data)

\* handle_tx_set on a decoded subtree and the batch that follows it
handle_tx_set(st, batch) ==
    LET z == ZipLoop(st, 1, ReaderIter(batch))
        g == RegistrationLoop(z.subtree, z.data)
    IN  IF z.err # "Ok" THEN Err(z.err)
        ELSE IF g.err # "Ok" THEN Err(g.err)
        ELSE Ok([space |-> space_hash(batch),
                 initial_root |-> SubTreeRoot(st),
                 final_root |-> SubTreeRoot(g.subtree)])

\* run, line 37: commitments.push
PushCommitment(cs, c) == Append(cs, c)

\* main with the journal written whatever run returned
mainCommitAlways(r) == [panic |-> FALSE, journal |-> [written |-> TRUE, out |-> r.out]]

\* main of the guest on the result of run: [panic, journal]
main(r) ==
    IF r.kind = "Ok" THEN [panic |-> FALSE, journal |-> [written |-> TRUE, out |-> r.out]]
    ELSE [panic |-> TRUE, journal |-> NoJournal]

\* run takes the next input of the payload and calls handle_tx_set on it
RunTake ==
    /\ pc = "run"
    /\ drained < Len(payload)
    /\ drained' = drained + 1
    /\ subtree' = payload[drained + 1].subtree
    /\ wire' = payload[drained + 1].batch
    /\ pc' = "g_start"
    /\ data' = <<>>
    /\ yielded' = <<>>
    /\ ended' = FALSE
    /\ initial_root' = {}
    /\ leaf' = 1
    /\ result' = NoResult
    /\ transition' = NoTransition
    /\ UNCHANGED <<builderVars, commitments, journal, registryVars>>

\* handle_tx_set returned Ok: run pushes the commitment
RunPush ==
    /\ pc = "g_done"
    /\ commitments' = PushCommitment(commitments, result.commitment)
    /\ pc' = "run"
    /\ UNCHANGED <<builderVars, readerVars, subtree, initial_root, leaf, result, transition,
                   drained, journal, registryVars>>

\* handle_tx_set returned an error: run returns it and main panics
RunFail ==
    /\ pc = "g_err"
    /\ LET o == main([kind |-> "Err", err |-> result.err, out |-> <<>>])
       IN  /\ journal' = o.journal
           /\ pc' = IF o.panic THEN "panicked" ELSE "exit"
    /\ commitments' = <<>>
    /\ UNCHANGED <<builderVars, readerVars, subtree, initial_root, leaf, result, transition,
                   drained, registryVars>>

\* the payload is drained: run returns the commitments and main commits them
RunReturn ==
    /\ pc = "run"
    /\ drained = Len(payload)
    /\ LET o == main([kind |-> "Ok", err |-> "none", out |-> commitments])
       IN  /\ journal' = o.journal
           /\ pc' = IF o.panic THEN "panicked" ELSE "exit"
    /\ UNCHANGED <<builderVars, readerVars, subtree, initial_root, leaf, result, transition,
                   drained, commitments, registryVars>>

----------------------------------------------------------------------------
(* The inputs of the guest: a subtree and a batch *)

\* the names in ascending order of their keys
KeyOrder ==
    CHOOSE s \in [1..Cardinality(Names) -> Names] :
        /\ \A i, j \in DOMAIN s : s[i] = s[j] => i = j
        /\ \A i, j \in DOMAIN s :
              i < j => CmpBytes(hash(AsBytes(s[i])), hash(AsBytes(s[j]))) = "Less"

\* what a subtree holds for a name: a leaf with a value, a proof of absence,
\* or nothing (the key is not covered)
LeafStates(n) ==
    CASE n = "a" -> {"absent", "uncovered", "key"}
      [] n = "b" -> {"absent", "uncovered", "key", "zero", "short"}
      [] n = "c" -> {"absent", "key"}

LeafValue(state) ==
    CASE state = "key" -> owner_public_key(1)
      [] state = "zero" -> Zeros(32)
      [] state = "short" -> <<5>>

SubTreeOf(f) ==
    LET all == [i \in DOMAIN KeyOrder |->
                  [name |-> KeyOrder[i], state |-> f[KeyOrder[i]]]]
        inc == SelectSeq(all, LAMBDA x : x.state \in {"key", "zero", "short"})
    IN  [leaves |-> [i \in DOMAIN inc |->
                        [key |-> hash(AsBytes(inc[i].name)),
                         value |-> LeafValue(inc[i].state), hashed |-> FALSE]],
         absent |-> {hash(AsBytes(n)) : n \in {m \in Names : f[m] = "absent"}}]

GuestSubTrees ==
    {SubTreeOf(f) : f \in {g \in [Names -> {"absent", "uncovered", "key", "zero", "short"}] :
                              \A n \in Names : g[n] \in LeafStates(n)}}

\* the witness add stores for a transaction of the name and owner that came
\* with the witness prior, signed for the space with the key sk
AddedWitness(n, owner, prior, space, sk) ==
    (add(TransactionBuilderNew, [TransactionNew(n, owner) EXCEPT !.witness = prior],
         SomeKey(space, sk))).builder.transactions[1].witness

\* the witnesses of the entries of a batch: none, a signature over the
\* message of the guest by either key, the signature add makes, a witness of
\* another type, a witness too short for a signature
GuestWitnesses(n, owner) ==
    LET key == hash(AsBytes(n))
        guest(sk) == <<WITNESS_TYPE_SIGNATURE>> \o Sign(sk, key \o owner)
    IN  CASE n = "a" -> {<<>>}
          [] n = "b" -> {<<>>, guest(1), guest(2), AddedWitness(n, owner, <<>>, "s", 1),
                         AddedWitness(n, owner, PriorWitness, "s", 1),
                         PriorWitness, <<WITNESS_TYPE_SIGNATURE>>}
          [] n = "c" -> {<<>>, guest(1)}

GuestEntries ==
    UNION {{[subspace_hash |-> hash(AsBytes(n)), owner |-> owner_public_key(2), witness |-> w] :
               w \in GuestWitnesses(n, owner_public_key(2))} : n \in Names}

\* the frame of an entry: its length, then its three fields
Frame(e) == U16LeBytes(64 + Len(e.witness)) \o e.subspace_hash \o e.owner \o e.witness

RECURSIVE Frames(_)
Frames(es) == IF es = <<>> THEN <<>> ELSE Frame(Head(es)) \o Frames(Tail(es))

\* batches no builder writes: a length prefix that is below 64 or beyond
\* the bytes that follow, then the frame of an entry
MalformedBatches ==
    {make_header(TransactionBuilderNew, "s") \o prefix \o Frame(e) :
        prefix \in {U16LeBytes(0), U16LeBytes(65535)},
        e \in {[subspace_hash |-> hash(AsBytes("c")), owner |-> owner_public_key(2),
                witness |-> <<>>],
               [subspace_hash |-> hash(AsBytes("b")), owner |-> owner_public_key(2),
                witness |-> <<WITNESS_TYPE_SIGNATURE>>
                                \o Sign(1, hash(AsBytes("b")) \o owner_public_key(2))]}}

GuestBatches ==
    {make_header(TransactionBuilderNew, "s") \o Frames(es) :
        es \in SeqsUpTo(GuestEntries, MaxEntries)}
        \cup {build(TransactionBuilderNew, space) : space \in Spaces}
        \cup MalformedBatches


----------------------------------------------------------------------------
(* registry: the staging file, the stores and the preparation of a proof *)

\* a map without a key
EmptyMap == [sp \in {} |-> <<>>]

\* a file that does not exist
NoFile == [exists |-> FALSE, valid |-> TRUE, builders |-> EmptyMap]

\* a file holding text: valid is whether the text parses as a map from
\* space to builder, builders what it parses to. A transaction in JSON has
\* a name, an owner and a witness, and no key.
FileOf(valid, builders) == [exists |-> TRUE, valid |-> valid, builders |-> builders]

\* no space has a store file
NoStores == [sp \in Spaces |-> [exists |-> FALSE, leaves |-> {}]]

\* CommitArgs without --dry-run
NoArgs == [dry_run |-> FALSE]

\* prove has not returned
NoProof == [receipt |-> FALSE, output |-> <<>>]

\* the derived Deserialize of TransactionBuilder
DeserializeBuilder(json) ==
    [version |-> json.version,
     transactions |-> [i \in DOMAIN json.transactions |->
                          TransactionFromJson(json.transactions[i])]]

\* the derived Serialize of TransactionBuilder: the key is skipped
SerializeBuilder(self) ==
    [version |-> self.version,
     transactions |-> [i \in DOMAIN self.transactions |->
                          [name |-> self.transactions[i].name,
                           owner |-> self.transactions[i].owner,
                           witness |-> self.transactions[i].witness]]]

\* TransactionBuilder::from_json: [ok, builder]
from_json(json) ==
    LET s == DeserializeBuilder(json)
    IN  IF \E i, j \in DOMAIN s.transactions :
              i < j /\ s.transactions[i].name = s.transactions[j].name
        THEN [ok |-> FALSE, builder |-> TransactionBuilderNew]
        ELSE [ok |-> TRUE, builder |-> s]

\* load_builders: [ok, builders]
load_builders(file) ==
    IF ~file.exists THEN [ok |-> TRUE, builders |-> EmptyMap]
    ELSE IF ~file.valid THEN [ok |-> FALSE, builders |-> EmptyMap]
    ELSE [ok |-> TRUE,
          builders |-> [sp \in DOMAIN file.builders |-> DeserializeBuilder(file.builders[sp])]]

\* save_builders: the file written
save_builders(builders) ==
    FileOf(TRUE, [sp \in DOMAIN builders |-> SerializeBuilder(builders[sp])])

\* add_builder: [ok, builders]. The builder of each space of the user's
\* file is merged into the builder staged for the space, or into a new one.
add_builder(builders, raw) ==
    IF ~raw.valid THEN [ok |-> FALSE, builders |-> builders]
    ELSE LET user == [sp \in DOMAIN raw.builders |-> DeserializeBuilder(raw.builders[sp])]
             staged(sp) == IF sp \in DOMAIN builders THEN builders[sp]
                           ELSE TransactionBuilderNew
             merged(sp) == merge(staged(sp), user[sp])
         IN  [ok |-> \A sp \in DOMAIN user : merged(sp).ok,
              builders |-> [sp \in DOMAIN builders \cup DOMAIN user |->
                               IF sp \in DOMAIN user THEN merged(sp).builder
                               ELSE builders[sp]]]

\* the keys reader.iter() yields, collected
RECURSIVE CollectKeys(_)
CollectKeys(d) ==
    LET r == BodyIteratorNext(d)
    IN  IF ~r.some THEN <<>> ELSE <<r.entry.subspace_hash>> \o CollectKeys(r.data)

\* the entries reader.iter() yields, collected
RECURSIVE CollectEntries(_)
CollectEntries(d) ==
    LET r == BodyIteratorNext(d)
    IN  IF ~r.some THEN <<>> ELSE <<r.entry>> \o CollectEntries(r.data)

\* commit, lines 325 to 330: every entry the reader yields from the batch
\* is inserted into the leaves of the store
RECURSIVE InsertAll(_, _)
InsertAll(ls, es) ==
    IF es = <<>> THEN ls
    ELSE InsertAll(StoreInsert(ls, Head(es).subspace_hash, Head(es).owner), Tail(es))

\* spacedb: snapshot.prove(keys): the subtree with a leaf for each key the
\* store holds and a proof of absence for each key it does not
Prove(store, keys) ==
    LET wanted == {keys[i] : i \in DOMAIN keys}
        held == SelectSeq(KeyOrder,
                          LAMBDA n : /\ hash(AsBytes(n)) \in wanted
                                     /\ \E l \in store.leaves : l.key = hash(AsBytes(n)))
    IN  [leaves |-> [i \in DOMAIN held |->
                        CHOOSE l \in store.leaves : l.key = hash(AsBytes(held[i]))],
         absent |-> wanted \ {l.key : l \in store.leaves}]

\* the orders in which a HashMap may hand out the keys S
IterationOrders(S) ==
    {o \in [1..Cardinality(S) -> S] : \A i, j \in DOMAIN o : o[i] = o[j] => i = j}

\* the staged spaces that have a store file
StoredSpaces(file, sts) == {sp \in DOMAIN load_builders(file).builders : sts[sp].exists}

\* prepare_zk_input: [ok, tx_set, payload]. Every staged builder is built
\* into tx_set; for the spaces with a store file, in the order o in which the
\* map hands them out, the subtree of the batch's keys and the batch are
\* pushed onto the payload
prepare_zk_input(file, sts, o) ==
    LET l == load_builders(file)
        built == [sp \in DOMAIN l.builders |-> build(l.builders[sp], sp)]
    IN  [ok |-> l.ok,
         tx_set |-> built,
         payload |-> [i \in DOMAIN o |->
                         [subtree |-> Prove(sts[o[i]], CollectKeys(ReaderIter(built[o[i]]))),
                          batch |-> built[o[i]]]]]

\* run on the inputs left, with the commitments cs pushed so far
RECURSIVE RunLoop(_, _)
RunLoop(inputs, cs) ==
    IF inputs = <<>> THEN [kind |-> "Ok", err |-> "none", out |-> cs]
    ELSE LET r == handle_tx_set(Head(inputs).subtree, Head(inputs).batch)
         IN  IF r.kind = "Err" THEN [kind |-> "Err", err |-> r.err, out |-> <<>>]
             ELSE RunLoop(Tail(inputs), PushCommitment(cs, r.commitment))

\* run of the guest on a payload
run(input) == RunLoop(input, <<>>)

----------------------------------------------------------------------------
(* The builder's life: new, add and merge in any order, then build, then   *)
(* the reader over the bytes built                                         *)

Owners == {owner_public_key(sk) : sk \in SigningKeys}

\* the transactions handed to add: fresh from Transaction::new, or carrying
\* a witness already
AddEntries ==
    {TransactionNew(n, owner_public_key(2)) : n \in Names}
    \cup {[TransactionNew(n, owner_public_key(1)) EXCEPT !.witness = PriorWitness] :
            n \in Names}

\* the signers handed to add
AddKeys == {NoKey, SomeKey("s", 1), SomeKey("t", 2)}

\* the transactions of the other builder of a merge, as parsed from JSON
OtherEntries ==
    {TransactionFromJson([name |-> n, owner |-> owner_public_key(1), witness |-> <<>>]) :
        n \in Names}

\* the other builders handed to merge
OtherBuilders ==
    {[version |-> v, transactions |-> t] :
        v \in {0, 1}, t \in SeqsUpTo(OtherEntries, MaxOther)}

\* the last operation: its kind, whether it returned Ok, and the signer of an add
\* and whether the name of an add was already in the builder
NoOp == [kind |-> "new", ok |-> TRUE, key |-> NoKey, dup |-> FALSE]

Init ==
    /\ builder = TransactionBuilderNew
    /\ op = NoOp
    /\ pc = "open"
    /\ wire = <<>>
    /\ data = <<>>
    /\ yielded = <<>>
    /\ ended = FALSE
    /\ subtree = EmptySubTree
    /\ initial_root = {}
    /\ leaf = 1
    /\ result = NoResult
    /\ transition = NoTransition
    /\ drained = 0
    /\ commitments = <<>>
    /\ journal = NoJournal
    /\ staging = NoFile
    /\ stores = NoStores
    /\ tx_set = EmptyMap
    /\ payload = <<>>
    /\ proof = NoProof
    /\ args = NoArgs

Add(entry, key) ==
    /\ pc = "open"
    /\ LET r == add(builder, entry, key)
       IN  /\ Len(r.builder.transactions) <= MaxTxs
           /\ builder' = r.builder
           /\ op' = [NoOp EXCEPT !.kind = "add", !.ok = r.ok, !.key = key,
                                   !.dup = HasName(builder, entry.name)]
    /\ UNCHANGED <<pc, readerVars, guestVars, registryVars>>

Merge(other) ==
    /\ pc = "open"
    /\ LET r == merge(builder, other)
       IN  /\ Len(r.builder.transactions) <= MaxTxs
           /\ builder' = r.builder
           /\ op' = [NoOp EXCEPT !.kind = "merge", !.ok = r.ok]
    /\ UNCHANGED <<pc, readerVars, guestVars, registryVars>>

Build(space) ==
    /\ pc = "open"
    /\ pc' = "built"
    /\ wire' = build(builder, space)
    /\ op' = [NoOp EXCEPT !.kind = "build"]
    /\ UNCHANGED <<builder, data, yielded, ended, guestVars, registryVars>>

Iter ==
    /\ pc = "built"
    /\ pc' = "reading"
    /\ data' = ReaderIter(wire)
    /\ UNCHANGED <<builderVars, wire, yielded, ended, guestVars, registryVars>>

ReaderNext ==
    /\ pc = "reading"
    /\ LET r == BodyIteratorNext(data)
       IN  /\ data' = r.data
           /\ yielded' = IF r.some THEN Append(yielded, r.entry) ELSE yielded
           /\ ended' = (ended \/ ~r.some)
           /\ pc' = IF r.panic THEN "panicked" ELSE pc
    /\ UNCHANGED <<builderVars, wire, guestVars, registryVars>>

Next ==
    \/ \E entry \in AddEntries, key \in AddKeys : Add(entry, key)
    \/ \E other \in OtherBuilders : Merge(other)
    \/ \E space \in Spaces : Build(space)
    \/ Iter
    \/ ReaderNext

Spec == Init /\ [][Next]_vars

\* the guest, run on a subtree and a batch of its host's choosing
InitGuest ==
    /\ builder = TransactionBuilderNew
    /\ op = NoOp
    /\ pc = "g_start"
    /\ wire \in GuestBatches
    /\ data = <<>>
    /\ yielded = <<>>
    /\ ended = FALSE
    /\ subtree \in GuestSubTrees
    /\ initial_root = {}
    /\ leaf = 1
    /\ result = NoResult
    /\ transition = NoTransition
    /\ drained = 0
    /\ commitments = <<>>
    /\ journal = NoJournal
    /\ staging = NoFile
    /\ stores = NoStores
    /\ tx_set = EmptyMap
    /\ payload = <<>>
    /\ proof = NoProof
    /\ args = NoArgs

NextGuest ==
    \/ GuestStart
    \/ GuestZip
    \/ GuestRegistration

\* the byte strings handed to the reader: a header, then nothing, one
\* byte, or a length prefix followed by bytes that fall short of it, meet it
\* or go beyond it
Fill(n) == [i \in 1..n |-> (7 * i) % 256]

ReaderWires ==
    LET header == make_header(TransactionBuilderNew, "s")
    IN  {header, header \o <<64>>}
            \cup {header \o U16LeBytes(len) \o Fill(n) :
                      len \in {0, 63, 64, 65, 130, 65535},
                      n \in {0, 1, 63, 64, 65, 66, 130, 200}}

\* the reader, run on bytes of any origin
InitReader ==
    /\ builder = TransactionBuilderNew
    /\ op = NoOp
    /\ pc = "built"
    /\ wire \in ReaderWires
    /\ data = <<>>
    /\ yielded = <<>>
    /\ ended = FALSE
    /\ subtree = EmptySubTree
    /\ initial_root = {}
    /\ leaf = 1
    /\ result = NoResult
    /\ transition = NoTransition
    /\ drained = 0
    /\ commitments = <<>>
    /\ journal = NoJournal
    /\ staging = NoFile
    /\ stores = NoStores
    /\ tx_set = EmptyMap
    /\ payload = <<>>
    /\ proof = NoProof
    /\ args = NoArgs

NextReader ==
    \/ Iter
    \/ ReaderNext

SpecReader == InitReader /\ [][NextReader]_vars

----------------------------------------------------------------------------
(* build of builders loaded from JSON, whose witnesses have any length *)

\* witness lengths around the largest one whose frame length fits 16 bits
WitnessLens == {0, 1, 65, 65471, 65472, 65473}

\* builders as from_json returns them: one transaction with a witness of
\* each length, or a signed-size one and one of each length
WriteBuilders ==
    {from_json([version |-> 0,
                transactions |-> <<[name |-> n, owner |-> owner_public_key(1),
                                    witness |-> Fill(k)]>>]).builder :
        n \in Names, k \in WitnessLens}
    \cup {from_json([version |-> 0,
                     transactions |-> <<[name |-> "a", owner |-> owner_public_key(1),
                                         witness |-> Fill(65)],
                                        [name |-> "b", owner |-> owner_public_key(2),
                                         witness |-> Fill(k)]>>]).builder :
            k \in WitnessLens}

InitWrite ==
    /\ builder \in WriteBuilders
    /\ op = NoOp
    /\ pc = "open"
    /\ wire = <<>>
    /\ data = <<>>
    /\ yielded = <<>>
    /\ ended = FALSE
    /\ subtree = EmptySubTree
    /\ initial_root = {}
    /\ leaf = 1
    /\ result = NoResult
    /\ transition = NoTransition
    /\ drained = 0
    /\ commitments = <<>>
    /\ journal = NoJournal
    /\ staging = NoFile
    /\ stores = NoStores
    /\ tx_set = EmptyMap
    /\ payload = <<>>
    /\ proof = NoProof
    /\ args = NoArgs

\* build takes the builder by value: what it returns is the wire bytes,
\* and the builder is gone
BuildOwned(space) ==
    /\ pc = "open"
    /\ pc' = "built"
    /\ wire' = build(builder, space)
    /\ builder' = TransactionBuilderNew
    /\ op' = [NoOp EXCEPT !.kind = "build"]
    /\ UNCHANGED <<data, yielded, ended, guestVars, registryVars>>

NextWrite ==
    \/ \E space \in Spaces : BuildOwned(space)
    \/ Iter
    \/ ReaderNext

SpecWrite == InitWrite /\ [][NextWrite]_vars

SpecGuest == InitGuest /\ [][NextGuest]_vars

\* the inputs of a payload: an accepted update, an accepted registration in
\* another space, an empty batch, a registration the zip rejects, a
\* registration the proof does not cover, an update followed by a registration
RunInput(f, space, es) ==
    [subtree |-> SubTreeOf(f),
     batch |-> make_header(TransactionBuilderNew, space) \o Frames(es)]

RunInputs ==
    LET none == [n \in Names |-> "uncovered"]
        b == hash(AsBytes("b"))
        c == hash(AsBytes("c"))
        pk2 == owner_public_key(2)
        entry(k, w) == [subspace_hash |-> k, owner |-> pk2, witness |-> w]
    IN  {RunInput([none EXCEPT !["b"] = "key"], "s",
                  <<entry(b, <<WITNESS_TYPE_SIGNATURE>> \o Sign(1, b \o pk2))>>),
         RunInput([none EXCEPT !["c"] = "absent"], "t", <<entry(c, <<>>)>>),
         RunInput([none EXCEPT !["b"] = "key"], "t", <<>>),
         RunInput([none EXCEPT !["b"] = "key"], "s", <<entry(b, <<>>)>>),
         RunInput(none, "s", <<entry(c, <<>>)>>),
         RunInput([none EXCEPT !["b"] = "key", !["c"] = "absent"], "t",
                  <<entry(b, <<WITNESS_TYPE_SIGNATURE>> \o Sign(1, b \o pk2)), entry(c, <<>>)>>)}

\* the guest program, run on a payload of its host's choosing
InitRun ==
    /\ builder = TransactionBuilderNew
    /\ op = NoOp
    /\ pc = "run"
    /\ wire = <<>>
    /\ data = <<>>
    /\ yielded = <<>>
    /\ ended = FALSE
    /\ subtree = EmptySubTree
    /\ initial_root = {}
    /\ leaf = 1
    /\ result = NoResult
    /\ transition = NoTransition
    /\ drained = 0
    /\ commitments = <<>>
    /\ journal = NoJournal
    /\ staging = NoFile
    /\ stores = NoStores
    /\ tx_set = EmptyMap
    /\ payload \in SeqsUpTo(RunInputs, MaxInputs)
    /\ proof = NoProof
    /\ args = NoArgs

NextRun ==
    \/ RunTake
    \/ GuestStart
    \/ GuestZip
    \/ GuestRegistration
    \/ RunPush
    \/ RunFail
    \/ RunReturn

SpecRun == InitRun /\ [][NextRun]_vars

\* the files of the registry's working directory and of its users
JsonTxs == {[name |-> n, owner |-> owner_public_key(1), witness |-> <<>>] : n \in {"a", "b"}}

JsonBuilders == {[version |-> v, transactions |-> t] :
                    v \in {0, 1}, t \in SeqsUpTo(JsonTxs, MaxJsonTxs)}

JsonFiles ==
    {FileOf(FALSE, EmptyMap), FileOf(TRUE, EmptyMap)}
        \cup {FileOf(TRUE, [sp \in {"s"} |-> b]) : b \in JsonBuilders}
        \cup {FileOf(TRUE, [sp \in Spaces |->
                 IF sp = "s" THEN b
                 ELSE [version |-> 0, transactions |-> <<CHOOSE t \in JsonTxs : t.name = "a">>]]) :
                 b \in {c \in JsonBuilders : c.version = 0 /\ Len(c.transactions) <= 1}}

RegistryStores ==
    {[sp \in Spaces |-> IF sp = "s" THEN st ELSE ot] :
        st \in {[exists |-> FALSE, leaves |-> {}], [exists |-> TRUE, leaves |-> {}],
                [exists |-> TRUE,
                 leaves |-> {[key |-> hash(AsBytes("a")), value |-> owner_public_key(1),
                              hashed |-> FALSE]}]},
        ot \in {[exists |-> FALSE, leaves |-> {}], [exists |-> TRUE, leaves |-> {}]}}

\* whether a file holds a builder with a name twice
HasDuplicate(file) ==
    /\ file.exists /\ file.valid
    /\ \E sp \in DOMAIN file.builders :
          \E i, j \in DOMAIN file.builders[sp].transactions :
              i < j /\ file.builders[sp].transactions[i].name
                           = file.builders[sp].transactions[j].name

RegistryOp(kind, ok, dup) == [kind |-> kind, ok |-> ok, key |-> NoKey, dup |-> dup]

\* the staging file is written by hand
EditStaging(file) ==
    /\ pc = "registry"
    /\ staging' = file
    /\ op' = RegistryOp("edit", TRUE, HasDuplicate(file))
    /\ builder' = TransactionBuilderNew
    /\ tx_set' = EmptyMap
    /\ payload' = <<>>
    /\ proof' = NoProof
    /\ args' = NoArgs
    /\ UNCHANGED <<pc, readerVars, guestVars, stores>>

\* TransactionBuilder::from_json on the text of a builder
FromJson(json) ==
    /\ pc = "registry"
    /\ LET r == from_json(json)
       IN  /\ builder' = r.builder
           /\ op' = RegistryOp("from_json", r.ok,
                               HasDuplicate(FileOf(TRUE, [sp \in {"s"} |-> json])))
    /\ tx_set' = EmptyMap
    /\ payload' = <<>>
    /\ proof' = NoProof
    /\ args' = NoArgs
    /\ UNCHANGED <<pc, readerVars, guestVars, staging, stores>>

\* registry add with one file, standard input being a terminal: the staged
\* builders are loaded, the file merged in and the result saved
RegistryAdd(raw) ==
    /\ pc = "registry"
    /\ LET l == load_builders(staging)
           a == add_builder(l.builders, raw)
       IN  /\ op' = RegistryOp("add_builder", l.ok /\ a.ok, HasDuplicate(raw))
           /\ staging' = IF l.ok /\ a.ok THEN save_builders(a.builders) ELSE staging
    /\ builder' = TransactionBuilderNew
    /\ tx_set' = EmptyMap
    /\ payload' = <<>>
    /\ proof' = NoProof
    /\ args' = NoArgs
    /\ UNCHANGED <<pc, readerVars, guestVars, stores>>

\* prepare_zk_input: every staged builder is built into tx_set; for the
\* spaces with a store file, in the order the map hands them out, the
\* subtree of the batch's keys and the batch are pushed onto the payload
PrepareZkInput ==
    /\ pc = "registry"
    /\ \E o \in IterationOrders(StoredSpaces(staging, stores)) :
          LET z == prepare_zk_input(staging, stores, o)
          IN  /\ op' = RegistryOp("prepare_zk_input", z.ok, HasDuplicate(staging))
              /\ tx_set' = z.tx_set
              /\ payload' = z.payload
    /\ builder' = TransactionBuilderNew
    /\ proof' = NoProof
    /\ args' = NoArgs
    /\ UNCHANGED <<pc, readerVars, guestVars, staging, stores>>

\* registry commit up to the return of prove: without a staging file it
\* fails; prove prepares the payload and, unless the payload is empty, has
\* the prover run the guest on it, verifies the receipt and decodes the
\* journal. The prover fails when the guest panics, and may fail or be
\* abandoned for reasons of its own.
CommitProve ==
    /\ pc = "registry"
    /\ \E o \in IterationOrders(StoredSpaces(staging, stores)),
          proverOk \in BOOLEAN, dry_run \in BOOLEAN :
          LET z == prepare_zk_input(staging, stores, o)
              r == run(z.payload)
              fail == /\ op' = RegistryOp("commit", FALSE, HasDuplicate(staging))
                      /\ tx_set' = EmptyMap
                      /\ payload' = <<>>
                      /\ proof' = NoProof
                      /\ args' = NoArgs
                      /\ pc' = pc
          IN  IF ~staging.exists \/ ~z.ok THEN fail
              ELSE IF z.payload = <<>>
              THEN /\ op' = RegistryOp("prove", TRUE, HasDuplicate(staging))
                   /\ tx_set' = z.tx_set
                   /\ payload' = z.payload
                   /\ proof' = [receipt |-> FALSE, output |-> <<>>]
                   /\ args' = [dry_run |-> dry_run]
                   /\ pc' = "c_write"
              ELSE IF r.kind = "Err" \/ ~proverOk THEN fail
              ELSE /\ op' = RegistryOp("prove", TRUE, HasDuplicate(staging))
                   /\ tx_set' = z.tx_set
                   /\ payload' = z.payload
                   /\ proof' = [receipt |-> TRUE, output |-> r.out]
                   /\ args' = [dry_run |-> dry_run]
                   /\ pc' = "c_write"
    /\ builder' = TransactionBuilderNew
    /\ UNCHANGED <<readerVars, guestVars, staging, stores>>

\* one turn of the loop of commit over tx_set: the store of a space is
\* opened, created if there is none, and every entry read from the batch
\* of the space is inserted and committed
CommitWrite ==
    /\ pc = "c_write"
    /\ \E sp \in DOMAIN tx_set :
          /\ stores' = [stores EXCEPT ![sp] =
                           [exists |-> TRUE,
                            leaves |-> InsertAll(stores[sp].leaves,
                                                 CollectEntries(ReaderIter(tx_set[sp])))]]
          /\ tx_set' = [t \in DOMAIN tx_set \ {sp} |-> tx_set[t]]
    /\ UNCHANGED <<builderVars, pc, readerVars, guestVars, staging, payload, proof, args>>

\* the end of commit: after the loop the staging file is removed
CommitFinish ==
    /\ pc = "c_write"
    /\ DOMAIN tx_set = {}
    /\ staging' = NoFile
    /\ op' = RegistryOp("commit", TRUE, FALSE)
    /\ pc' = "registry"
    /\ UNCHANGED <<builder, readerVars, guestVars, stores, tx_set, payload, proof, args>>

InitRegistry ==
    /\ builder = TransactionBuilderNew
    /\ op = NoOp
    /\ pc = "registry"
    /\ wire = <<>>
    /\ data = <<>>
    /\ yielded = <<>>
    /\ ended = FALSE
    /\ subtree = EmptySubTree
    /\ initial_root = {}
    /\ leaf = 1
    /\ result = NoResult
    /\ transition = NoTransition
    /\ drained = 0
    /\ commitments = <<>>
    /\ journal = NoJournal
    /\ staging = NoFile
    /\ stores \in RegistryStores
    /\ tx_set = EmptyMap
    /\ payload = <<>>
    /\ proof = NoProof
    /\ args = NoArgs

NextRegistry ==
    \/ \E file \in JsonFiles : EditStaging(file)
    \/ \E json \in JsonBuilders : FromJson(json)
    \/ \E raw \in JsonFiles : RegistryAdd(raw)
    \/ PrepareZkInput
    \/ CommitProve
    \/ CommitWrite
    \/ CommitFinish

SpecRegistry == InitRegistry /\ [][NextRegistry]_vars

----------------------------------------------------------------------------
(* Properties of the builder and the wire reader *)

\* the wire entry of a transaction
EntryOf(tx) ==
    [subspace_hash |-> hash(AsBytes(tx.name)), owner |-> tx.owner, witness |-> tx.witness]

\* the frames of a wire body, decoded by its length prefixes from position i
RECURSIVE FramesFrom(_, _)
FramesFrom(body, i) ==
    IF i + 1 > Len(body) THEN <<>>
    ELSE LET len == body[i] + 256 * body[i + 1]
         IN  IF len < 64 \/ i + 1 + len > Len(body) THEN <<>>
             ELSE <<[subspace_hash |-> SubSeq(body, i + 2, i + 33),
                     owner         |-> SubSeq(body, i + 34, i + 65),
                     witness       |-> SubSeq(body, i + 66, i + 1 + len)]>>
                  \o FramesFrom(body, i + 2 + len)

WireEntries(bytes) == FramesFrom(SubSeq(bytes, HEADER_SIZE + 1, Len(bytes)), 1)

\* the canonical order of a sequence of entries: updates before
\* registrations, each group strictly ascending by subspace hash
InCanonicalOrder(es) ==
    \A i, j \in DOMAIN es :
        i < j =>
            \/ es[i].witness # <<>> /\ es[j].witness = <<>>
            \/ /\ (es[i].witness = <<>>) = (es[j].witness = <<>>)
               /\ CmpBytes(es[i].subspace_hash, es[j].subspace_hash) = "Less"

EntriesOf(txs) == [i \in DOMAIN txs |-> EntryOf(txs[i])]

Range(f) == {f[i] : i \in DOMAIN f}

Perms(n) == {p \in [1..n -> 1..n] : \A i, j \in 1..n : p[i] = p[j] => i = j}

\* a transaction without its cached key
Strip(txs) ==
    [i \in DOMAIN txs |->
        [name |-> txs[i].name, owner |-> txs[i].owner, witness |-> txs[i].witness]]

DistinctNames(txs) ==
    \A i, j \in DOMAIN txs : txs[i].name = txs[j].name => i = j

\* C2: reading the bytes build returned to the end of the iterator yields
\* one entry per transaction of the builder: the hash of its name, its owner
\* and its witness, in canonical order.
C2_RoundTrip ==
    (pc = "reading" /\ ended) =>
        /\ Len(yielded) = Len(builder.transactions)
        /\ Range(yielded) = Range(EntriesOf(builder.transactions))
        /\ InCanonicalOrder(yielded)

\* C3: in the bytes build returned, the entries with a witness come before
\* those without, and each group ascends strictly by subspace hash.
C3_WireCanonical ==
    pc # "open" =>
        /\ Len(WireEntries(wire)) = Len(builder.transactions)
        /\ InCanonicalOrder(WireEntries(wire))

\* C3 witness: a builder whose transactions were added out of canonical
\* order, an update among them, has been built.
C3_Witness ==
    /\ pc = "built"
    /\ Len(builder.transactions) >= 2
    /\ ~InCanonicalOrder(EntriesOf(builder.transactions))
    /\ \E i \in DOMAIN builder.transactions : builder.transactions[i].witness # <<>>

\* C4: the bytes build returned are those build returns for every other
\* order of the same transactions.
C4_OrderIndependent ==
    pc # "open" =>
        \A sp \in Spaces, p \in Perms(Len(builder.transactions)) :
            hash(AsBytes(sp)) = space_hash(wire) =>
                build([builder EXCEPT !.transactions =
                          [i \in DOMAIN builder.transactions |->
                               builder.transactions[p[i]]]], sp) = wire

\* C4 witness: a builder of two or more transactions, some merged from
\* another builder, has been built.
C4_Witness ==
    /\ pc = "built"
    /\ Len(builder.transactions) >= 2
    /\ \E i \in DOMAIN builder.transactions : builder.transactions[i].key = Zeros(32)

\* C5: sorting a sorted list changes nothing, and sorting a list already in
\* canonical order leaves its transactions (name, owner, witness) in place.
C5_SortIdempotent ==
    /\ sort(sort(builder.transactions)) = sort(builder.transactions)
    /\ InCanonicalOrder(EntriesOf(builder.transactions)) =>
           Strip(sort(builder.transactions)) = Strip(builder.transactions)

\* C5 witness: a builder holding two or more transactions in canonical order
\* has been sorted by build.
C5_Witness ==
    /\ pc = "built"
    /\ Len(builder.transactions) >= 2
    /\ InCanonicalOrder(EntriesOf(builder.transactions))

\* C6: the names of the builder's transactions are pairwise distinct.
C6_NamesUnique == DistinctNames(builder.transactions)

\* C6 witness: an add or a merge has just failed on a builder that holds
\* two transactions.
C6_Witness ==
    /\ pc = "open"
    /\ ~op.ok
    /\ Len(builder.transactions) >= 2

\* C7: an add of a name the builder already holds returns an error, with or
\* without a signer, and leaves the builder as it was.
C7_DuplicateAdd ==
    [][(pc = "open" /\ op'.kind = "add" /\ op'.dup) =>
          (~op'.ok /\ builder' = builder)]_vars

\* C7 witness: an add with a signer has returned an error.
C7_Witness ==
    /\ op.kind = "add"
    /\ op.dup
    /\ ~op.ok
    /\ op.key.some
    /\ builder.transactions # <<>>

\* C8: a merge that returns an error leaves the transaction list of the
\* receiving builder as it was.
C8_FailedMergeUntouched ==
    [][(pc = "open" /\ op'.kind = "merge" /\ ~op'.ok) =>
          builder'.transactions = builder.transactions]_vars

\* C10: after a successful add with a signer, the witness of the stored
\* transaction is the tag 0x00 followed by the signature of
\* version || SHA-256(space) || SHA-256(name) || owner: 65 bytes.
C10_SignedWitness ==
    (op.kind = "add" /\ op.ok /\ op.key.some) =>
        LET tx == builder.transactions[Len(builder.transactions)]
            msg == <<builder.version>> \o hash(AsBytes(op.key.space))
                     \o hash(AsBytes(tx.name)) \o tx.owner
        IN  /\ Len(msg) = 97
            /\ Len(tx.witness) = 65
            /\ tx.witness = <<0>> \o Sign(op.key.sk, msg)

\* C1: when handle_tx_set returns Ok, no leaf of the initial subtree is gone,
\* and every leaf of the final subtree that differs from the initial one is
\* either on a key the initial subtree did not hold, or carries the owner of
\* an entry the guest read for that key whose witness holds a signature that
\* verifies under 0x02 || the leaf's value before, over leaf key || new owner.
C1_Sound ==
    result.kind = "Ok" =>
        LET c == result.commitment
        IN  /\ \A l \in c.initial_root : \E m \in c.final_root : m.key = l.key
            /\ \A m \in c.final_root :
                  m \notin c.initial_root =>
                      \/ ~\E l \in c.initial_root : l.key = m.key
                      \/ \E l \in c.initial_root, i \in DOMAIN yielded :
                            /\ l.key = m.key
                            /\ ~m.hashed
                            /\ yielded[i].subspace_hash = m.key
                            /\ yielded[i].owner = m.value
                            /\ yielded[i].witness # <<>>
                            /\ Verify(<<SEC1_COMPRESSED_TAG>> \o l.value,
                                      m.key \o m.value, Tail(yielded[i].witness))

\* a run that returned Ok and changed the value of a leaf the initial subtree held
C1_Witness ==
    /\ result.kind = "Ok"
    /\ \E l \in result.commitment.initial_root, m \in result.commitment.final_root :
          l.key = m.key /\ l.value # m.value

\* C9: an operation that reads JSON holding a builder with a name twice
\* fails, be it from_json, the registry's add of a user's file or the load
\* of the staging file by prepare_zk_input, and no batch in tx_set holds two
\* entries of the same subspace.
C9_DuplicatesRejected ==
    /\ (op.kind \in {"from_json", "add_builder", "prepare_zk_input"} /\ op.dup) => ~op.ok
    /\ \A sp \in DOMAIN tx_set :
          LET es == WireEntries(tx_set[sp])
          IN  \A i, j \in DOMAIN es : es[i].subspace_hash = es[j].subspace_hash => i = j

\* C11: whenever handle_transition is called on an aligned leaf whose value
\* is the public key of sk with an entry whose witness is the one add stored
\* when signing with sk, it returns InvalidSignature.
C11_BuilderSignedRejected ==
    (/\ transition.called
     /\ transition.key = transition.tx.subspace_hash
     /\ \E n \in Names, sk \in SigningKeys, space \in Spaces, prior \in {<<>>, PriorWitness} :
           /\ hash(AsBytes(n)) = transition.key
           /\ transition.value = owner_public_key(sk)
           /\ transition.tx.witness = AddedWitness(n, transition.tx.owner, prior, space, sk))
        => transition.err = "InvalidSignature"

\* C12: a call of handle_transition on an aligned leaf whose value is a
\* public key, with a witness 0x00 || signature by that key over
\* leaf key || tx.owner, returns Ok and leaves tx.owner in the leaf; with a
\* signature by another key it returns InvalidSignature; and whenever it
\* returns an error the leaf holds the value it held before.
C12_ChangeOnlyOnSuccess ==
    transition.called =>
        LET t == transition
            msg == t.key \o t.tx.owner
            signedBy(sk) == t.tx.witness = <<WITNESS_TYPE_SIGNATURE>> \o Sign(sk, msg)
        IN  /\ \A sk \in SigningKeys :
                  (t.key = t.tx.subspace_hash /\ t.value = owner_public_key(sk)) =>
                      /\ signedBy(sk) => (t.err = "Ok" /\ t.after = t.tx.owner)
                      /\ (\E other \in SigningKeys \ {sk} : signedBy(other))
                            => t.err = "InvalidSignature"
            /\ t.err # "Ok" => t.after = t.value
            /\ \E i \in DOMAIN subtree.leaves :
                  subtree.leaves[i].key = t.key /\ subtree.leaves[i].value = t.after

\* handle_transition returned Ok and replaced the leaf value by another owner
C12_Witness ==
    /\ transition.called
    /\ transition.err = "Ok"
    /\ transition.after = transition.tx.owner
    /\ transition.after # transition.value

\* C13: a call of handle_transition returns the error of the first
\* precondition that fails in the order alignment, leaf length, witness not
\* empty, witness tag, public key parse, signature parse, verification; so
\* on an aligned 32-byte leaf that is no public key an empty witness gives
\* WitnessRequired and a witness of another tag UnsupportedWitness.
C13_CheckOrder ==
    transition.called =>
        LET t == transition
            pk == <<SEC1_COMPRESSED_TAG>> \o t.value
        IN  t.err =
              (IF t.key # t.tx.subspace_hash THEN "UnalignedSubTree"
               ELSE IF Len(t.value) # PUBLIC_KEY_SIZE THEN "ExpectedPublicKey"
               ELSE IF t.tx.witness = <<>> THEN "WitnessRequired"
               ELSE IF t.tx.witness[1] # WITNESS_TYPE_SIGNATURE THEN "UnsupportedWitness"
               ELSE IF ~VerifyingKeyFromSec1(pk) THEN "ExpectedPublicKey"
               ELSE IF ~SignatureFromSlice(Tail(t.tx.witness)) THEN "InvalidSignature"
               ELSE IF ~Verify(pk, t.key \o t.tx.owner, Tail(t.tx.witness))
               THEN "InvalidSignature"
               ELSE "Ok")

\* C14: a finished run of handle_tx_set on a subtree whose one included leaf
\* has the key k and a batch whose one entry is a registration of k (its
\* witness is empty) has failed with KeyExists.
C14_RegistrationOfExistingKey ==
    (/\ pc \in {"g_done", "g_err"}
     /\ Len(WireEntries(wire)) = 1
     /\ WireEntries(wire)[1].witness = <<>>
     /\ Cardinality(initial_root) = 1
     /\ \E l \in initial_root : l.key = WireEntries(wire)[1].subspace_hash)
        => (result.kind = "Err" /\ result.err = "KeyExists")

\* C15: when handle_tx_set returns Ok, the root hash of its final subtree is
\* the root hash of the leaves the store holds after commit inserted
\* (subspace_hash, owner) for every entry it reads from the same batch,
\* starting from the leaves of the initial subtree.
C15_FinalRootIsStoreRoot ==
    result.kind = "Ok" =>
        RootHash(result.commitment.final_root)
            = RootHash(InsertAll(result.commitment.initial_root,
                                 CollectEntries(ReaderIter(wire))))

\* the transitions of a batch, applied to a subtree: the included leaves
\* from position i on take the entries es in order, each through
\* handle_transition, and the entries left over are inserted
RECURSIVE AllTransitions(_, _, _)
AllTransitions(st, i, es) ==
    IF es = <<>> THEN [err |-> "Ok", subtree |-> st]
    ELSE IF i <= Len(ValueLeaves(st))
    THEN LET j == ValueLeaves(st)[i]
             t == handle_transition(st.leaves[j].key, st.leaves[j].value, Head(es))
         IN  IF t.err # "Ok" THEN [err |-> t.err, subtree |-> st]
             ELSE AllTransitions([st EXCEPT !.leaves[j].value = t.value], i + 1, Tail(es))
    ELSE LET ins == SubTreeInsert(st, Head(es).subspace_hash, Head(es).owner)
         IN  IF ins.err # "Ok" THEN [err |-> MapVerifyError(ins.err), subtree |-> st]
             ELSE AllTransitions(ins.subtree, i, Tail(es))

\* C16: when main has written the journal, it holds one commitment per
\* input of the payload, in the order of the inputs: the space of the i-th
\* is bytes 1..33 of the header of the i-th batch, its initial root the root
\* of the i-th decoded subtree and its final root the root of that subtree
\* after all the transitions of the entries of the i-th batch.
C16_OneCommitmentPerInput ==
    journal.written =>
        /\ Len(journal.out) = Len(payload)
        /\ \A i \in DOMAIN payload :
              LET all == AllTransitions(payload[i].subtree, 1, WireEntries(payload[i].batch))
              IN  /\ journal.out[i].space = SubSeq(payload[i].batch, 2, 33)
                  /\ journal.out[i].initial_root = SubTreeRoot(payload[i].subtree)
                  /\ all.err = "Ok"
                  /\ journal.out[i].final_root = SubTreeRoot(all.subtree)

\* C17: if handle_tx_set fails on any input of the payload, main panics and
\* the journal is never written; the journal is written only when every
\* input was processed without error.
C17_ErrorsAbortRun ==
    /\ (\E i \in 1..drained : handle_tx_set(payload[i].subtree, payload[i].batch).kind = "Err")
          => (~journal.written /\ pc \in {"g_start", "g_zip", "g_reg", "g_err", "panicked"})
    /\ pc = "panicked" => (~journal.written /\ commitments = <<>>)
    /\ journal.written =>
          /\ drained = Len(payload)
          /\ \A i \in DOMAIN payload :
                handle_tx_set(payload[i].subtree, payload[i].batch).kind = "Ok"

\* main has panicked on the second input after the first gave a commitment
C17_Witness ==
    /\ pc = "panicked"
    /\ drained = 2
    /\ handle_tx_set(payload[1].subtree, payload[1].batch).kind = "Ok"

\* C18: the batch build emits for a builder without transactions is the 33
\* bytes of the header, version 0 and SHA-256 of the space; handle_tx_set on
\* a subtree and that batch does not fail, leaves every leaf of the subtree
\* as it was and returns a commitment whose two roots are equal.
C18_EmptyBatch ==
    \A space \in Spaces :
        wire = build(TransactionBuilderNew, space) =>
            /\ Len(wire) = 33
            /\ wire = <<0>> \o hash(AsBytes(space))
            /\ pc # "g_err"
            /\ pc \in {"g_zip", "g_reg", "g_done"} => SubTreeRoot(subtree) = initial_root
            /\ pc = "g_done" =>
                  /\ result.kind = "Ok"
                  /\ result.commitment.initial_root = result.commitment.final_root
                  /\ result.commitment.final_root = SubTreeRoot(subtree)

\* handle_tx_set has returned on a subtree with leaves and the batch of an
\* empty builder
C18_Witness ==
    /\ pc = "g_done"
    /\ wire = build(TransactionBuilderNew, "t")
    /\ subtree.leaves # <<>>

\* C19: a call of BodyIterator::next on any data does not panic; it returns
\* None when fewer than 2 bytes remain, when the length prefix is below 64
\* or when it exceeds the bytes after the prefix; otherwise it returns an
\* entry whose subspace_hash and owner are the 32 bytes each that follow the
\* prefix and whose witness is the len - 64 bytes after them.
C19_FramingDiscipline ==
    [][pc = "reading" =>
          LET len == data[1] + 256 * data[2]
          IN  /\ pc' = "reading"
              /\ IF Len(data) < 2 \/ len < 64 \/ len > Len(data) - 2
                 THEN yielded' = yielded /\ ended'
                 ELSE /\ Len(yielded') = Len(yielded) + 1
                      /\ LET e == yielded'[Len(yielded')]
                         IN  /\ Len(e.subspace_hash) = 32
                             /\ Len(e.owner) = 32
                             /\ Len(e.witness) = len - 64
                             /\ e.subspace_hash \o e.owner \o e.witness
                                   = SubSeq(data, 3, len + 2)]_vars

\* the reader has returned an entry with a witness and, on other bytes, None
\* for a length prefix below 64
C19_Witness ==
    /\ pc = "reading"
    /\ \/ yielded # <<>> /\ yielded[1].witness # <<>> /\ Len(wire) > HEADER_SIZE + 2 + 66
       \/ ended /\ yielded = <<>> /\ Len(wire) > HEADER_SIZE + 2 + 64
             /\ wire[HEADER_SIZE + 1] = 63

\* C20: in registry commit a store is written or the staging file removed
\* only after prove has returned with a receipt produced and verified; the
\* staging file is removed only when the transaction sets of all spaces
\* have been committed; and when commit fails in prove, the stores and the
\* staging file are as before.
C20_CommitAfterProof ==
    [][/\ (stores' # stores \/ (staging.exists /\ ~staging'.exists))
             => (pc = "c_write" /\ proof.receipt)
       /\ (staging.exists /\ ~staging'.exists) => DOMAIN tx_set = {}
       /\ (pc = "registry" /\ op'.kind = "commit" /\ ~op'.ok)
             => (stores' = stores /\ staging' = staging)]_vars

\* C21: a registry commit invoked with --dry-run proves the staged changes
\* and modifies neither the store of any space nor the staging file: in
\* every step of the command after prove has returned, the stores and the
\* staging file stay as they were.
C21_DryRunWritesNothing ==
    [][(pc = "c_write" /\ args.dry_run)
          => (stores' = stores /\ staging' = staging)]_vars

C23_EndIsFinal ==
    [][ended => yielded' = yielded]_vars

\* C24: lockstep alignment. Whenever a subtree leaf is paired with a batch
\* entry whose subspace_hash differs from the leaf key, handle_transition
\* returns UnalignedSubTree, whatever the leaf value and the witness are,
\* the leaf keeps its value, and handle_tx_set returns that error.
C24_Lockstep ==
    (transition.called /\ transition.key # transition.tx.subspace_hash)
        => /\ transition.err = "UnalignedSubTree"
           /\ transition.after = transition.value
           /\ pc = "g_err"
           /\ result = Err("UnalignedSubTree")
           /\ \E i \in DOMAIN subtree.leaves :
                 /\ subtree.leaves[i].key = transition.key
                 /\ subtree.leaves[i].value = transition.value

\* a leaf that holds no public key was paired with a registration of
\* another key: the checks of the value and of the witness would fail too
C24_Witness ==
    /\ transition.called
    /\ transition.key # transition.tx.subspace_hash
    /\ Len(transition.value) # PUBLIC_KEY_SIZE
    /\ transition.tx.witness = <<>>
    /\ transition.err = "UnalignedSubTree"

\* where the frame of the i-th transaction written starts in the wire
\* bytes, each frame being 2 + 64 + the witness length bytes long
RECURSIVE FrameStart(_, _)
FrameStart(txs, i) ==
    IF i = 1 THEN HEADER_SIZE + 1
    ELSE FrameStart(txs, i - 1) + 2 + 64 + Len(txs[i - 1].witness)

\* C25: the length prefix is never truncated. For every transaction build
\* has written, the 2-byte little-endian length field of its frame equals
\* 64 + the length of its witness.
C25_LengthPrefix ==
    [][(pc = "open" /\ pc' = "built") =>
          LET txs == sort(builder.transactions)
          IN  \A i \in DOMAIN txs :
                 U16FromLe(SubSeq(wire', FrameStart(txs, i), FrameStart(txs, i) + 1))
                     = 64 + Len(txs[i].witness)]_vars

\* C26: the proved payload is determined by the staging file and the
\* stores. Whatever order the map of builders is iterated in, another
\* execution of prepare_zk_input on the same staging file and stores gives
\* the payload this one gave, and the journal of a prove run on it is the
\* journal this run decoded.
C26_PayloadDetermined ==
    /\ (pc = "registry" /\ op.kind = "prepare_zk_input" /\ op.ok) =>
          \A o \in IterationOrders(StoredSpaces(staging, stores)) :
             prepare_zk_input(staging, stores, o).payload = payload
    /\ (pc = "c_write" /\ proof.receipt
            /\ DOMAIN tx_set = DOMAIN load_builders(staging).builders) =>
          \A o \in IterationOrders(StoredSpaces(staging, stores)) :
             /\ prepare_zk_input(staging, stores, o).payload = payload
             /\ run(prepare_zk_input(staging, stores, o).payload).out = proof.output

\* C27: every committed batch is covered by the proof. In registry commit
\* the transaction set of a space is written to the store of the space only
\* if prove returned a verified receipt whose journal holds a commitment
\* for that space, and when prove returns, the journal holds as many
\* commitments as there are spaces whose transactions will be committed.
C27_CommittedIsProved ==
    [][/\ pc = "c_write" =>
             \A sp \in DOMAIN tx_set \ DOMAIN tx_set' :
                /\ proof.receipt
                /\ \E i \in DOMAIN proof.output :
                      proof.output[i].space = hash(AsBytes(sp))
       /\ (pc = "registry" /\ pc' = "c_write") =>
             Len(proof'.output) = Cardinality(DOMAIN tx_set')]_vars

====
